---- MODULE Spec2Model ----
(***************************************************************************)
(* IntentSim framework: the coherence field engine (IntentField), the      *)
(* CoherenceField collaborator it consults, and the clamped state update   *)
(* of IntentAgent.                                                         *)
(*                                                                         *)
(* Numbers.  Coherence, dissonance and impact deltas are integers in       *)
(* thousandths (0.8 is 800).  Symbol strengths are integers in millionths  *)
(* (0.1 is 100000), products are truncated toward minus infinity.  The     *)
(* non-finite doubles NaN, +Infinity and -Infinity are the three values    *)
(* NaN, PosInf and NegInf, and the Js* operators give them the meaning     *)
(* ECMAScript gives them.  Date.now() timestamps are left out.             *)
(***************************************************************************)
EXTENDS Integers, Sequences, FiniteSets, TLC

VARIABLES
    initialized,             \* IntentField.initialize() has run
    fieldState,              \* what coherenceField.getState() returns
    resonanceHistory,        \* IntentField.resonanceHistory
    recorded,                \* number of _imprintMemory calls so far (the clock of the timestamps)
    fieldStates,             \* IntentField.fieldStates
    symbolicStateSignature,  \* IntentField.symbolicStateSignature, in Map order
    fieldNarrativeContext,   \* IntentField.fieldNarrativeContext
    oscillatoryBuffer,       \* IntentField.oscillatoryBuffer (one object, mutated in place)
    harmonicTrace,           \* insertion order of harmonicMap's symbols, and the last update of the map
    pending,                 \* processIntent calls suspended at `await calculateImpact`
    calls,                   \* processIntent calls made so far
    lastResult,              \* <<outcome>> of the processIntent call that settled last
    lastActivate,            \* <<argument, active before, return value>> of the last activateOscillatoryBuffer
    lastSnapshot,            \* <<value returned by the last fieldSnapshot() call, whether it repeats the one before>>
    snapshotsTaken,          \* fieldSnapshot() calls so far
    mutatedSinceSnapshot,    \* the engine was mutated after the last fieldSnapshot()
    agentState,              \* IntentAgent.state.coherence / .dissonance
    agentActive,             \* IntentAgent.state.active
    agentStats,              \* IntentAgent.stats.interactions, and state.lastInteraction as the number of that interaction (0 is null)
    agentOutcome,            \* <<outcome>> of the last IntentAgent._updateFieldState or process call
    securityCore,            \* the SecurityCore object: its configuration, entropy shield and breach log
    securityOutcome          \* <<key, outcome>> of the last validateEquationUsage call

vars == <<initialized, fieldState, resonanceHistory, recorded, fieldStates,
          symbolicStateSignature, fieldNarrativeContext, oscillatoryBuffer,
          harmonicTrace, pending, calls, lastResult, lastActivate, lastSnapshot,
          snapshotsTaken, mutatedSinceSnapshot, agentState, agentActive,
          agentStats, agentOutcome, securityCore, securityOutcome>>

\* the state the engine owns
engineVars == <<resonanceHistory, fieldStates, symbolicStateSignature,
                fieldNarrativeContext, oscillatoryBuffer>>

-----------------------------------------------------------------------------
(* Units *)

Milli == 10 * 100            \* 1.0 for coherence, dissonance, deltas, factors
Micro == Milli * Milli       \* 1.0 for symbol strengths

(* Non-finite doubles *)
NaN    == 0 - 7777777
PosInf == 9999999
NegInf == 0 - 9999999

IsFinite(x) == x \notin {NaN, PosInf, NegInf}

\* a + b on doubles
JsAdd(a, b) ==
    IF a = NaN \/ b = NaN THEN NaN
    ELSE IF a = PosInf THEN (IF b = NegInf THEN NaN ELSE PosInf)
    ELSE IF a = NegInf THEN (IF b = PosInf THEN NaN ELSE NegInf)
    ELSE IF b \in {PosInf, NegInf} THEN b
    ELSE a + b

\* a > b on doubles: false when either is NaN
JsGT(a, b) ==
    IF a = NaN \/ b = NaN THEN FALSE
    ELSE IF a = PosInf THEN b # PosInf
    ELSE IF a = NegInf THEN FALSE
    ELSE IF b = PosInf THEN FALSE
    ELSE IF b = NegInf THEN TRUE
    ELSE a > b

\* Math.min(a, b)
JsMin(a, b) == IF a = NaN \/ b = NaN THEN NaN ELSE IF JsGT(a, b) THEN b ELSE a

\* Math.max(a, b)
JsMax(a, b) == IF a = NaN \/ b = NaN THEN NaN ELSE IF JsGT(a, b) THEN a ELSE b

\* Math.abs(a)
JsAbs(a) ==
    IF a = NaN THEN NaN
    ELSE IF a \in {PosInf, NegInf} THEN PosInf
    ELSE IF a < 0 THEN 0 - a ELSE a

-----------------------------------------------------------------------------
(* Intents.  A text is the sequence of its words; a pattern of             *)
(* _extractSymbolicMarkers matches a text that has one of its words.       *)

NoType == ""

symbolPatterns ==
    << [words |-> {"help", "assist", "support"},           symbol |-> "assistance", strength |-> 700000],
       [words |-> {"create", "build", "make", "develop"},  symbol |-> "creation",   strength |-> 800000],
       [words |-> {"analyze", "examine", "assess"},        symbol |-> "analysis",   strength |-> 900000],
       [words |-> {"learn", "understand", "know"},         symbol |-> "knowledge",  strength |-> 750000],
       [words |-> {"feel", "emotion", "sense"},            symbol |-> "emotion",    strength |-> 600000],
       [words |-> {"connect", "relate", "share"},          symbol |-> "connection", strength |-> 650000] >>

Range(s) == {s[i] : i \in DOMAIN s}

\* pattern.test(intent.text)
PatternHits(pattern, text) == Range(text) \cap pattern.words # {}

\* intent.type.toLowerCase(), on the types that have capitals
toLowerCase(str) ==
    IF str = "Creation" THEN "creation"
    ELSE IF str = "Assistance" THEN "assistance"
    ELSE str

\* the marker list of an intent, in the order the code pushes it
_extractSymbolicMarkers(intent) ==
    LET F[i \in 0..Len(symbolPatterns)] ==
            IF i = 0 THEN <<>>
            ELSE IF PatternHits(symbolPatterns[i], intent.text)
                 THEN Append(F[i - 1], [symbol |-> symbolPatterns[i].symbol,
                                        strength |-> symbolPatterns[i].strength])
                 ELSE F[i - 1]
        fromText == IF intent.text # <<>> THEN F[Len(symbolPatterns)] ELSE <<>>
        withType ==
            IF intent.type # NoType
            THEN Append(fromText, [symbol |-> toLowerCase(intent.type), strength |-> 800000])
            ELSE fromText
    IN  IF Len(withType) = 0
        THEN << [symbol |-> "neutral", strength |-> 300000] >>
        ELSE withType

\* `${intent.type}:${intent.subtype || 'general'}`
_extractIntentSignature(intent) ==
    <<intent.type, IF intent.subtype = "" THEN "general" ELSE intent.subtype>>

-----------------------------------------------------------------------------
(* Symbolic signature: a sequence of [symbol, strength, trend] in the       *)
(* insertion order of the Map.                                             *)

baseSymbols ==
    <<"harmony", "clarity", "depth", "emergence",
      "connection", "autonomy", "transcendence">>

PruneThreshold == 50000      \* 0.05

IndexOf(sig, symbol) ==
    IF \E i \in DOMAIN sig : sig[i].symbol = symbol
    THEN CHOOSE i \in DOMAIN sig : sig[i].symbol = symbol
    ELSE 0

\* Map.set(symbol, entry): an existing key keeps its place, a new key goes last
MapSet(sig, entry) ==
    LET i == IndexOf(sig, entry.symbol)
    IN  IF i = 0 THEN Append(sig, entry) ELSE [sig EXCEPT ![i] = entry]

\* baseSymbols.forEach(symbol => set(symbol, {strength: 0.1, trend: 'stable'}))
_initializeSymbolicSignature(sig) ==
    LET F[i \in 0..Len(baseSymbols)] ==
            IF i = 0 THEN sig
            ELSE MapSet(F[i - 1],
                        [symbol |-> baseSymbols[i], strength |-> 100000, trend |-> "stable"])
    IN  F[Len(baseSymbols)]

\* a blend that weighs the old and the observed strength alike
BlendStrength_Even(old, observed) == (old * 5 + observed * 5) \div 10

\* current.strength * 0.8 + strength * 0.2
BlendStrength(old, observed) == (old * 8 + observed * 2) \div 10

\* the trend of a tracked symbol whose strength goes from old to new
BlendTrend(old, new) ==
    IF new > old THEN "increasing"
    ELSE IF new < old THEN "decreasing" ELSE "stable"

\* the body of symbolicMarkers.forEach for one marker
ObserveMarker(sig, marker) ==
    LET i == IndexOf(sig, marker.symbol)
    IN  IF i # 0
        THEN LET newStrength == BlendStrength(sig[i].strength, marker.strength)
             IN  [sig EXCEPT ![i] =
                    [symbol |-> marker.symbol, strength |-> newStrength,
                     trend |-> BlendTrend(sig[i].strength, newStrength)]]
        ELSE Append(sig, [symbol |-> marker.symbol, strength |-> marker.strength,
                          trend |-> "emerging"])

\* a faster decay
DecayStrength_Faster(old) == (old * 90) \div 100

\* data.strength * 0.98
DecayStrength(old) == (old * 98) \div 100

\* a decay loop that keeps faded entries until they reach zero
Negligible_OnlyAtZero(newStrength) == newStrength <= 0

\* whether the decay loop deletes an entry of that (decayed) strength
Negligible(newStrength) == newStrength < PruneThreshold

\* a decay loop that never deletes
DecayAbsent_NoPrune(sig, markers) ==
    [i \in DOMAIN sig |->
        IF \E k \in DOMAIN markers : markers[k].symbol = sig[i].symbol
        THEN sig[i]
        ELSE [symbol |-> sig[i].symbol,
              strength |-> DecayStrength(sig[i].strength),
              trend |-> "decreasing"]]

\* the decay loop: every tracked symbol absent from the markers
DecayAbsent(sig, markers) ==
    LET present(e) == \E k \in DOMAIN markers : markers[k].symbol = e.symbol
        decayed == [i \in DOMAIN sig |->
                       IF present(sig[i]) THEN sig[i]
                       ELSE [symbol |-> sig[i].symbol,
                             strength |-> DecayStrength(sig[i].strength),
                             trend |-> "decreasing"]]
    IN  SelectSeq(decayed, LAMBDA e : present(e) \/ ~Negligible(e.strength))

\* the two loops of _updateSymbolicSignature on the Map
UpdateSignatureMap(sig, markers) ==
    LET F[i \in 0..Len(markers)] ==
            IF i = 0 THEN sig ELSE ObserveMarker(F[i - 1], markers[i])
    IN  DecayAbsent(F[Len(markers)], markers)

NarrativeLimit == 10

\* _updateNarrativeContext
_updateNarrativeContext(ctx, intent, impact) ==
    LET pushed == Append(ctx, [intentType |-> intent.type,
                               coherenceDelta |-> impact.coherenceDelta,
                               dissonanceDelta |-> impact.dissonanceDelta,
                               symbolicMarkers |-> _extractSymbolicMarkers(intent)])
    IN  IF Len(pushed) > NarrativeLimit THEN Tail(pushed) ELSE pushed

\* the narrative context after _updateSymbolicSignature
NarrativeAfterUpdate(ctx, intent, impact) ==
    IF JsGT(JsAbs(impact.coherenceDelta), 200) \/ JsGT(JsAbs(impact.dissonanceDelta), 200)
    THEN _updateNarrativeContext(ctx, intent, impact)
    ELSE ctx

\* _getSymbolicTrends: the first entry of strictly greatest strength
_getSymbolicTrends(sig) ==
    LET strengths == {sig[i].strength : i \in DOMAIN sig}
        maxStrength ==
            IF \E s \in strengths : s > 0
            THEN CHOOSE s \in strengths : \A t \in strengths : t <= s
            ELSE 0
        first == CHOOSE i \in DOMAIN sig :
                    /\ sig[i].strength = maxStrength
                    /\ \A j \in 1..(i - 1) : sig[j].strength # maxStrength
    IN  [dominant |-> IF maxStrength > 0 THEN sig[first].symbol ELSE "",     \* "" stands for null
         strength |-> maxStrength]

\* sort((a, b) => b.strength - a.strength): by falling strength, entries of
\* equal strength in the order they had
RECURSIVE SortByStrength(_)
SortByStrength(seq) ==
    IF Len(seq) <= 1 THEN seq
    ELSE LET pivot == seq[(Len(seq) + 1) \div 2].strength
         IN  SortByStrength(SelectSeq(seq, LAMBDA x : x.strength > pivot))
             \o SelectSeq(seq, LAMBDA x : x.strength = pivot)
             \o SortByStrength(SelectSeq(seq, LAMBDA x : x.strength < pivot))

\* _getSymbolicShift: the entries whose trend is not stable, sorted
_getSymbolicShift(sig) ==
    SortByStrength(SelectSeq(sig, LAMBDA e : e.trend # "stable"))

-----------------------------------------------------------------------------
(* Oscillatory buffer.  frequency is in thousandths of a hertz, amplitude   *)
(* in ten-thousandths, stabilizationFactor in units of 10^-9, harmonicMap   *)
(* a sequence of [symbol, factor] in the insertion order of the Map, the    *)
(* factor in thousandths.                                                  *)

BaseFrequency == 432

HarmonicLimit == 20

StabilizationCap == 8 * 100 * Micro      \* 0.8

NewOscillatoryBuffer ==
    [active |-> FALSE, frequency |-> BaseFrequency * Milli, amplitude |-> 0,
     phase |-> 0, stabilizationFactor |-> 0, harmonicMap |-> <<>>]

HarmonicHas(map, symbol) == \E i \in DOMAIN map : map[i].symbol = symbol

HarmonicGet(map, symbol) == map[CHOOSE i \in DOMAIN map : map[i].symbol = symbol].factor

\* the threshold above which a call activates the buffer
ActivationThreshold == 500

\* the threshold below which a call deactivates an active buffer
DeactivationThreshold == 300

\* the branch `dissonanceLevel > 0.5` of activateOscillatoryBuffer
ActivatedBuffer(buf, sig, dissonanceLevel) ==
    LET symbolicTrends == _getSymbolicTrends(sig)
        dominantSymbol == symbolicTrends.dominant
        base == (BaseFrequency * Milli * Milli) \div (dissonanceLevel * 2)
        harmonicModifier ==
            IF HarmonicGet(buf.harmonicMap, dominantSymbol) = 0 THEN Milli
            ELSE HarmonicGet(buf.harmonicMap, dominantSymbol)
        frequency ==
            IF dominantSymbol # "" /\ HarmonicHas(buf.harmonicMap, dominantSymbol)
            THEN (base * harmonicModifier) \div Milli
            ELSE base
        raw == dissonanceLevel * (Micro + symbolicTrends.strength)
    IN  [buf EXCEPT !.active = TRUE,
                    !.frequency = frequency,
                    !.amplitude = dissonanceLevel * 5,
                    !.phase = 0,
                    !.stabilizationFactor =
                        IF raw < StabilizationCap THEN raw ELSE StabilizationCap]

\* a buffer without hysteresis: every call at or below 0.5 deactivates it
BufferAfterActivate_NoHysteresis(buf, sig, dissonanceLevel) ==
    IF dissonanceLevel > ActivationThreshold
    THEN ActivatedBuffer(buf, sig, dissonanceLevel)
    ELSE [buf EXCEPT !.active = FALSE]

\* activateOscillatoryBuffer(dissonanceLevel): the buffer after the call
BufferAfterActivate(buf, sig, dissonanceLevel) ==
    IF dissonanceLevel > ActivationThreshold
    THEN ActivatedBuffer(buf, sig, dissonanceLevel)
    ELSE IF buf.active /\ dissonanceLevel < DeactivationThreshold
         THEN [buf EXCEPT !.active = FALSE]
         ELSE buf

\* activateOscillatoryBuffer(dissonanceLevel): the value returned
ActivateReturns(dissonanceLevel) == dissonanceLevel > ActivationThreshold

\* a set that moves a key it overwrites to the end of the order
HarmonicSet_MoveToEnd(map, symbol, resonanceFactor) ==
    Append(SelectSeq(map, LAMBDA e : e.symbol # symbol),
           [symbol |-> symbol, factor |-> resonanceFactor])

\* harmonicMap.set(symbol, resonanceFactor)
HarmonicSet(map, symbol, resonanceFactor) ==
    IF HarmonicHas(map, symbol)
    THEN [i \in DOMAIN map |->
            IF map[i].symbol = symbol
            THEN [symbol |-> symbol, factor |-> resonanceFactor] ELSE map[i]]
    ELSE Append(map, [symbol |-> symbol, factor |-> resonanceFactor])

\* a pruning that deletes the newest key of an oversized map
HarmonicPrune_DropNewest(map) ==
    IF Len(map) > HarmonicLimit THEN SubSeq(map, 1, Len(map) - 1) ELSE map

\* the pruning of updateHarmonicMapping: delete keys()[0] of an oversized map
HarmonicPrune(map) == IF Len(map) > HarmonicLimit THEN Tail(map) ELSE map

\* updateHarmonicMapping(symbol, resonanceFactor): the map after the call
HarmonicMapAfterUpdate(map, symbol, resonanceFactor) ==
    HarmonicPrune(HarmonicSet(map, symbol, resonanceFactor))

-----------------------------------------------------------------------------
(* Resonance history *)

HistoryLimit == 100

\* a history that drops its newest entry, not its oldest
HistoryTrim_DropNewest(hist) ==
    IF Len(hist) > HistoryLimit THEN SubSeq(hist, 1, Len(hist) - 1) ELSE hist

\* resonanceHistory.shift() once the pushed history is too long
HistoryTrim(hist) == IF Len(hist) > HistoryLimit THEN Tail(hist) ELSE hist

\* _imprintMemory: the history after the call; the timestamp is the number
\* of the record
HistoryAfterImprint(hist, stamp, intent, impact, state) ==
    HistoryTrim(Append(hist,
        [timestamp |-> stamp,
         intentSignature |-> _extractIntentSignature(intent),
         coherenceImpact |-> impact.coherenceDelta,
         dissonanceImpact |-> impact.dissonanceDelta,
         fieldState |-> state,
         symbolicMarkers |-> _extractSymbolicMarkers(intent)]))

-----------------------------------------------------------------------------
(* Decay predictor.  projectedCoherence and decayRate are in units of       *)
(* 1/4000 (a quarter of a thousandth), so that the division of the trend by *)
(* 4 is exact; timeToThreshold is the fraction num/den, or +Infinity.       *)

Window == 5

Threshold == 500

Infinite == [inf |-> TRUE, num |-> 0, den |-> 1]

\* Math.max(0, Math.min(1, projectedCoherence)), in units of 1/4000
ClampProjected(q) == IF q < 0 THEN 0 ELSE IF q > 4 * Milli THEN 4 * Milli ELSE q

\* a decay rate that counts a rising trend as decay
DecayRateOf_Unsigned(trendDirection) ==
    IF trendDirection < 0 THEN 0 - trendDirection ELSE trendDirection

\* trendVelocity < 0 ? Math.abs(trendVelocity) : 0, from 4 * trendVelocity
DecayRateOf(trendDirection) == IF trendDirection < 0 THEN 0 - trendDirection ELSE 0

\* decayRate > 0 ? (coherence - 0.5) / decayRate : Infinity
TimeToThresholdOf(coherence, decayRate) ==
    IF decayRate > 0
    THEN [inf |-> FALSE, num |-> 4 * (coherence - Threshold), den |-> decayRate]
    ELSE Infinite

\* a predictor that answers a short history with a time of zero
InsufficientData_ZeroTime(state) ==
    [projectedCoherence |-> 4 * state.coherence,
     decayRate |-> 0,
     timeToThreshold |-> [inf |-> FALSE, num |-> 0, den |-> 1]]

\* what the predictor returns when the history has fewer than 5 entries
InsufficientData(state) ==
    [projectedCoherence |-> 4 * state.coherence,
     decayRate |-> 0,
     timeToThreshold |-> Infinite]

_predictFieldDecay(hist, state) ==
    IF Len(hist) < Window
    THEN InsufficientData(state)
    ELSE LET recentStates == SubSeq(hist, Len(hist) - Window + 1, Len(hist))
             trendDirection == recentStates[Window].fieldState.coherence
                               - recentStates[1].fieldState.coherence
             decayRate == DecayRateOf(trendDirection)
         IN  [projectedCoherence |-> ClampProjected(4 * state.coherence + 5 * trendDirection),
              decayRate |-> decayRate,
              timeToThreshold |-> TimeToThresholdOf(state.coherence, decayRate)]

-----------------------------------------------------------------------------
(* Interference between the agent passed to processIntent and the field.    *)
(* harmonicCoupling is in millionths.                                       *)

Abs(x) == IF x < 0 THEN 0 - x ELSE x

\* a coupling that grows with the interference
HarmonicCouplingOf_Amplified(alignmentScore, interferenceScore) ==
    IF alignmentScore > 800 THEN alignmentScore * (Milli + interferenceScore) ELSE 0

\* a coupling without the alignment gate
HarmonicCouplingOf_Ungated(alignmentScore, interferenceScore) ==
    alignmentScore * (Milli - interferenceScore)

\* (alignmentScore > 0.8) ? alignmentScore * (1 - interferenceScore) : 0
HarmonicCouplingOf(alignmentScore, interferenceScore) ==
    IF alignmentScore > 800 THEN alignmentScore * (Milli - interferenceScore) ELSE 0

_calculateInterference(agentArg, state) ==
    LET alignmentScore == Milli - Abs(agentArg.coherence - state.coherence)
        interferenceScore == Abs(agentArg.dissonance - state.dissonance)
        harmonicCoupling == HarmonicCouplingOf(alignmentScore, interferenceScore)
    IN  [alignmentScore |-> alignmentScore,
         interferenceScore |-> interferenceScore,
         harmonicCoupling |-> harmonicCoupling,
         phase |-> IF harmonicCoupling > 700000 THEN "resonant"
                   ELSE IF interferenceScore > 700 THEN "dissonant" ELSE "neutral"]

-----------------------------------------------------------------------------
(* Snapshot.  oscillatoryState is the buffer object itself, not a copy: the *)
(* snapshot holds the reference "oscillatoryBuffer" and a reader sees what  *)
(* the object holds when it reads.                                          *)

LastThree(ctx) == IF Len(ctx) > 3 THEN SubSeq(ctx, Len(ctx) - 2, Len(ctx)) ELSE ctx

SnapshotOf(state, sig, ctx, hist) ==
    [coherence |-> state,
     symbolicSignature |-> sig,
     activeHarmonics |-> <<432, 528>>,
     oscillatoryState |-> "oscillatoryBuffer",
     narrativeContext |-> LastThree(ctx),
     decayProjection |-> _predictFieldDecay(hist, state)]

\* what a holder of snapshot snap reads from it while the buffer object holds buf
SnapshotContents(snap, buf) ==
    [coherence |-> snap.coherence,
     symbolicSignature |-> snap.symbolicSignature,
     oscillatoryState |-> buf,
     decayProjection |-> snap.decayProjection]

-----------------------------------------------------------------------------
(* Inputs and bounds *)

MaxCalls == 2                \* processIntent calls in one behaviour
MaxPending == 2              \* processIntent calls suspended at the same time
MaxSnapshots == 2            \* fieldSnapshot calls in one behaviour

NeutralIntent == [text |-> <<>>, type |-> NoType, subtype |-> ""]

Intents ==
    { NeutralIntent,
      [text |-> <<"please", "help">>,   type |-> "assistance", subtype |-> ""],
      [text |-> <<"connect">>,          type |-> "general",    subtype |-> "social"] }

\* what calculateImpact returns in placeholders.ts
PlaceholderImpact == [coherenceDelta |-> 50, dissonanceDelta |-> 0 - 20]

\* what getState returns in placeholders.ts
PlaceholderState == [coherence |-> 800, dissonance |-> 200]

\* what calculateImpact may resolve to
FiniteImpacts ==
    { PlaceholderImpact,
      [coherenceDelta |-> 0 - 300, dissonanceDelta |-> 400],
      [coherenceDelta |-> 250,     dissonanceDelta |-> 0 - 350] }

NonFiniteImpacts ==
    { [coherenceDelta |-> NaN,     dissonanceDelta |-> 0 - 20],
      [coherenceDelta |-> 50,      dissonanceDelta |-> NaN],
      [coherenceDelta |-> PosInf,  dissonanceDelta |-> NegInf] }

\* what getState may return
FieldStateValues ==
    { PlaceholderState,
      [coherence |-> 400, dissonance |-> 700],
      [coherence |-> 900, dissonance |-> 250] }

\* the agent argument of processIntent: an IntentAgent (which has no
\* getState method) or an object that has one
AgentArgs ==
    { [hasGetState |-> FALSE, coherence |-> Milli, dissonance |-> 0],
      [hasGetState |-> TRUE,  coherence |-> 900,   dissonance |-> 100] }

DissonanceLevels == {200, 300, 400, 500, 800}

HarmonicSymbols == {"harmony", "assistance"}

HarmonicFactors == {0, 1500}

\* what a failing calculateImpact may reject with
CollaboratorErrors == {"CollaboratorFailure", "ImpactTimeout"}

NoInterference ==
    [alignmentScore |-> 0, interferenceScore |-> 0, harmonicCoupling |-> 0,
     phase |-> "none"]

RemoveAt(seq, i) == SubSeq(seq, 1, i - 1) \o SubSeq(seq, i + 1, Len(seq))

-----------------------------------------------------------------------------
(* SecurityCore.  A key is the sequence of the char codes of the string;    *)
(* the empty sequence is the key null.  A seed of 0 is a seed not given.    *)

NullKey == <<>>

\* no SecurityCore has been constructed yet
NoSecurityCore ==
    [constructed |-> FALSE, licenseKey |-> NullKey, enforcementLevel |-> "strict",
     seed |-> 1, matrixValue |-> 0, lastValidation |-> FALSE, breaches |-> 0,
     validations |-> 0]

\* one step of _simpleHash: ((hash << 5) - hash) + char, cut to a signed
\* 32-bit integer, computed on the two 16-bit halves of hash
HashStep(hash, char) ==
    LET lo == hash % 65536
        hi == (hash \div 65536) % 65536
        sumLo == 31 * lo + char
        newLo == sumLo % 65536
        newHi == (31 * hi + sumLo \div 65536) % 65536
    IN  IF newHi >= 32768 THEN (newHi - 65536) * 65536 + newLo
        ELSE newHi * 65536 + newLo

\* _simpleHash(str)
_simpleHash(key) ==
    LET F[i \in 0..Len(key)] == IF i = 0 THEN 0 ELSE HashStep(F[i - 1], key[i])
    IN  Abs(F[Len(key)])

\* resonanceAuth.baseFrequency
ResonanceBase == 432

\* the validation function of _initializeResonanceAuthentication
ResonanceValidation(key) ==
    IF key = NullKey THEN FALSE
    ELSE LET keyHash == _simpleHash(key)
         IN  /\ keyHash % ResonanceBase = 0
             /\ \A harmonic \in {216, 648, 864} :
                    2 * (((keyHash % harmonic) * 2) % harmonic) <= harmonic

\* _validateWithResonance(key)
_validateWithResonance(key) == ResonanceValidation(key)

\* every entry of the matrix of _generateEntropyMatrix(seed):
\* floor(((seed * 9301 + 49297) % 233280) / 233280 * 256)
_generateEntropyMatrix(seed) ==
    LET r == seed % 233280
        x == (((r * 93) % 233280) * 100 + r + 49297) % 233280
    IN  (x * 256) \div 233280

\* the sum _validateWithQuantumEntropy forms: each byte times the four
\* entries of its row
EntropySum(key, matrixValue) ==
    LET F[i \in 0..Len(key)] ==
            IF i = 0 THEN 0 ELSE F[i - 1] + key[i] * 4 * matrixValue
    IN  F[Len(key)]

\* _validateWithQuantumEntropy(key): the value returned
_validateWithQuantumEntropy(core, key) ==
    IF key = NullKey THEN FALSE
    ELSE EntropySum(key, core.matrixValue) % core.seed = 0

-----------------------------------------------------------------------------
(* CoherenceField collaborator *)

\* getState()
getState == fieldState

\* calculateImpact settles: the collaborator's state is then newState
CoherenceFieldSettles(newState) == fieldState' = newState

-----------------------------------------------------------------------------
(* State after `new IntentAgent()`, which constructs its IntentField *)

Init ==
    /\ initialized = FALSE
    /\ fieldState = PlaceholderState
    /\ resonanceHistory = <<>>
    /\ recorded = 0
    /\ fieldStates = <<>>
    /\ symbolicStateSignature = <<>>
    /\ fieldNarrativeContext = <<>>
    /\ oscillatoryBuffer = NewOscillatoryBuffer
    /\ harmonicTrace = [order |-> <<>>, lastSet |-> <<>>]
    /\ pending = <<>>
    /\ calls = 0
    /\ lastResult = <<>>
    /\ lastActivate = <<>>
    /\ lastSnapshot = <<>>
    /\ snapshotsTaken = 0
    /\ mutatedSinceSnapshot = FALSE
    /\ agentState = [coherence |-> Milli, dissonance |-> 0]
    /\ agentActive = FALSE
    /\ agentStats = [interactions |-> 0, lastInteraction |-> 0]
    /\ agentOutcome = <<>>
    /\ securityCore = NoSecurityCore
    /\ securityOutcome = <<>>

agentVars == <<agentState, agentActive, agentStats, agentOutcome>>

securityVars == <<securityCore, securityOutcome>>

snapshotVars == <<lastSnapshot, snapshotsTaken>>

-----------------------------------------------------------------------------
(* IntentField operations *)

\* _recordFieldState(): fieldStates.push({state: getState()})
_recordFieldState(states, state) == Append(states, state)

\* initialize() on the engine: _recordFieldState and _initializeSymbolicSignature
FieldInitialize ==
    /\ ~initialized
    /\ initialized' = TRUE
    /\ fieldStates' = _recordFieldState(fieldStates, getState)
    /\ symbolicStateSignature' = _initializeSymbolicSignature(symbolicStateSignature)
    /\ mutatedSinceSnapshot' = TRUE
    /\ UNCHANGED <<fieldState, resonanceHistory, recorded, fieldNarrativeContext,
                   oscillatoryBuffer, harmonicTrace, pending, calls, lastResult,
                   lastActivate>>
    /\ UNCHANGED snapshotVars

\* initialize(), called directly on the field
initialize ==
    /\ FieldInitialize
    /\ UNCHANGED agentVars
    /\ UNCHANGED securityVars

\* a processIntent that updates the symbolic signature before it awaits the
\* impact
ProcessIntentCall_UpdatesSignature(intent, agent, maxCalls) ==
    /\ calls < maxCalls
    /\ Len(pending) < MaxPending
    /\ pending' = Append(pending, [intent |-> intent, agent |-> agent, caller |-> "direct"])
    /\ calls' = calls + 1
    /\ symbolicStateSignature' =
          UpdateSignatureMap(symbolicStateSignature, _extractSymbolicMarkers(intent))
    /\ mutatedSinceSnapshot' = TRUE
    /\ UNCHANGED <<initialized, fieldState, recorded, lastResult, harmonicTrace,
                   lastActivate, resonanceHistory, fieldStates, fieldNarrativeContext,
                   oscillatoryBuffer>>
    /\ UNCHANGED snapshotVars
    /\ UNCHANGED agentVars
    /\ UNCHANGED securityVars

\* processIntent up to its await: calculateImpact has been called
ProcessIntentCall(intent, agent, maxCalls) ==
    /\ calls < maxCalls
    /\ Len(pending) < MaxPending
    /\ pending' = Append(pending, [intent |-> intent, agent |-> agent, caller |-> "direct"])
    /\ calls' = calls + 1
    /\ UNCHANGED <<initialized, fieldState, recorded, lastResult, harmonicTrace,
                   mutatedSinceSnapshot, lastActivate>>
    /\ UNCHANGED engineVars
    /\ UNCHANGED snapshotVars
    /\ UNCHANGED agentVars
    /\ UNCHANGED securityVars

\* the condition under which processIntent evaluates the buffer
NeedsStabilization(impact, state) ==
    JsGT(impact.dissonanceDelta, 300) \/ state.dissonance > 600

\* the buffer after the stabilization check of processIntent
BufferAfterCheck(buf, sig, impact, state) ==
    IF NeedsStabilization(impact, state)
    THEN BufferAfterActivate(buf, sig, state.dissonance)
    ELSE buf

\* the value processIntent returns, or the TypeError of agent.getState()
ProcessIntentOutcome(agent, impact, state, hist, sig, buf) ==
    IF agent.hasGetState
    THEN [status |-> "returned",
          error |-> "",
          agent |-> agent,
          fieldImpact |-> impact,
          decayPrediction |-> _predictFieldDecay(hist, state),
          interferencePatterns |-> _calculateInterference(agent, state),
          symbolicShift |-> _getSymbolicShift(sig),
          oscillatoryState |-> IF buf.active THEN "oscillatoryBuffer" ELSE "null"]
    ELSE [status |-> "TypeError",
          error |-> "agent.getState is not a function",
          agent |-> agent,
          fieldImpact |-> impact,
          decayPrediction |-> _predictFieldDecay(hist, state),
          interferencePatterns |-> NoInterference,
          symbolicShift |-> <<>>,
          oscillatoryState |-> "null"]

\* processIntent after its await, on the engine: calculateImpact resolved to
\* impact for the i-th suspended call, and everything up to the return runs
\* without suspension
FieldResume(i, impact, newState) ==
    /\ i \in DOMAIN pending
    /\ CoherenceFieldSettles(newState)
    /\ LET intent == pending[i].intent
           state == newState
           hist == HistoryAfterImprint(resonanceHistory, recorded + 1, intent, impact, state)
           buf == BufferAfterCheck(oscillatoryBuffer, symbolicStateSignature, impact, state)
           sig == UpdateSignatureMap(symbolicStateSignature, _extractSymbolicMarkers(intent))
       IN  /\ resonanceHistory' = hist
           /\ recorded' = recorded + 1
           /\ fieldStates' = _recordFieldState(fieldStates, state)
           /\ oscillatoryBuffer' = buf
           /\ symbolicStateSignature' = sig
           /\ fieldNarrativeContext' = NarrativeAfterUpdate(fieldNarrativeContext, intent, impact)
           /\ lastResult' = <<ProcessIntentOutcome(pending[i].agent, impact, state, hist, sig, buf)>>
    /\ pending' = RemoveAt(pending, i)
    /\ mutatedSinceSnapshot' = TRUE
    /\ UNCHANGED <<initialized, harmonicTrace, calls, lastActivate>>
    /\ UNCHANGED snapshotVars

\* processIntent after its await, called directly on the field
ProcessIntentResume(i, impact, newState) ==
    /\ i \in DOMAIN pending
    /\ pending[i].caller = "direct"
    /\ FieldResume(i, impact, newState)
    /\ UNCHANGED agentVars
    /\ UNCHANGED securityVars

\* a processIntent that imprints the intent before it awaits the impact
ProcessIntentFails_AfterImprint(i, error) ==
    /\ i \in DOMAIN pending
    /\ pending[i].caller = "direct"
    /\ lastResult' = <<[status |-> "rejected",
                        error |-> error,
                        agent |-> pending[i].agent,
                        fieldImpact |-> [coherenceDelta |-> 0, dissonanceDelta |-> 0],
                        decayPrediction |-> _predictFieldDecay(<<>>, fieldState),
                        interferencePatterns |-> NoInterference,
                        symbolicShift |-> <<>>,
                        oscillatoryState |-> "null"]>>
    /\ pending' = RemoveAt(pending, i)
    /\ resonanceHistory' =
          HistoryAfterImprint(resonanceHistory, recorded + 1, pending[i].intent,
                              [coherenceDelta |-> 0, dissonanceDelta |-> 0], fieldState)
    /\ recorded' = recorded + 1
    /\ mutatedSinceSnapshot' = TRUE
    /\ UNCHANGED <<initialized, fieldState, harmonicTrace, calls, lastActivate,
                   fieldStates, symbolicStateSignature, fieldNarrativeContext,
                   oscillatoryBuffer>>
    /\ UNCHANGED snapshotVars
    /\ UNCHANGED agentVars
    /\ UNCHANGED securityVars

\* calculateImpact rejects with error: the await throws it and processIntent
\* rejects with it
ProcessIntentFails(i, error) ==
    /\ i \in DOMAIN pending
    /\ pending[i].caller = "direct"
    /\ lastResult' = <<[status |-> "rejected",
                        error |-> error,
                        agent |-> pending[i].agent,
                        fieldImpact |-> [coherenceDelta |-> 0, dissonanceDelta |-> 0],
                        decayPrediction |-> _predictFieldDecay(<<>>, fieldState),
                        interferencePatterns |-> NoInterference,
                        symbolicShift |-> <<>>,
                        oscillatoryState |-> "null"]>>
    /\ pending' = RemoveAt(pending, i)
    /\ UNCHANGED <<initialized, fieldState, recorded, harmonicTrace, calls,
                   mutatedSinceSnapshot, lastActivate>>
    /\ UNCHANGED engineVars
    /\ UNCHANGED snapshotVars
    /\ UNCHANGED agentVars
    /\ UNCHANGED securityVars

\* activateOscillatoryBuffer(dissonanceLevel), called directly
activateOscillatoryBuffer(dissonanceLevel) ==
    /\ oscillatoryBuffer' =
          BufferAfterActivate(oscillatoryBuffer, symbolicStateSignature, dissonanceLevel)
    /\ lastActivate' = <<[dissonanceLevel |-> dissonanceLevel,
                          wasActive |-> oscillatoryBuffer.active,
                          returned |-> ActivateReturns(dissonanceLevel)]>>
    /\ mutatedSinceSnapshot' = TRUE
    /\ UNCHANGED <<initialized, fieldState, resonanceHistory, recorded, fieldStates,
                   symbolicStateSignature, fieldNarrativeContext, harmonicTrace,
                   pending, calls, lastResult>>
    /\ UNCHANGED snapshotVars
    /\ UNCHANGED agentVars
    /\ UNCHANGED securityVars

\* the symbols of the map in the order of their insertion, kept apart from
\* the map: a symbol enters last when it is set while absent, and leaves
\* when the map no longer has it
InsertionOrderAfter(order, symbol, map) ==
    LET entered == IF \E k \in DOMAIN order : order[k] = symbol
                   THEN order ELSE Append(order, symbol)
    IN  SelectSeq(entered, LAMBDA x : HarmonicHas(map, x))

SymbolsOf(map) == {map[i].symbol : i \in DOMAIN map}

\* the record of the updateHarmonicMapping calls: the insertion order of the
\* symbols present and, of the last call, its symbol, the symbols present
\* before it and the one of them that was inserted earliest
HarmonicTraceAfter(trace, symbol, mapBefore, mapAfter) ==
    [order   |-> InsertionOrderAfter(trace.order, symbol, mapAfter),
     lastSet |-> <<[symbol   |-> symbol,
                    before   |-> SymbolsOf(mapBefore),
                    earliest |-> IF trace.order = <<>> THEN "" ELSE trace.order[1]]>>]

\* updateHarmonicMapping(symbol, resonanceFactor)
updateHarmonicMapping(symbol, resonanceFactor) ==
    /\ oscillatoryBuffer' =
          [oscillatoryBuffer EXCEPT !.harmonicMap =
              HarmonicMapAfterUpdate(oscillatoryBuffer.harmonicMap, symbol, resonanceFactor)]
    /\ harmonicTrace' =
          HarmonicTraceAfter(harmonicTrace, symbol, oscillatoryBuffer.harmonicMap,
                             oscillatoryBuffer'.harmonicMap)
    /\ mutatedSinceSnapshot' = TRUE
    /\ UNCHANGED <<initialized, fieldState, resonanceHistory, recorded, fieldStates,
                   symbolicStateSignature, fieldNarrativeContext, pending, calls,
                   lastResult, lastActivate>>
    /\ UNCHANGED snapshotVars
    /\ UNCHANGED agentVars
    /\ UNCHANGED securityVars

\* a snapshot that also records the field state, as initialize does
fieldSnapshot_Recording ==
    /\ snapshotsTaken < MaxSnapshots
    /\ lastSnapshot' =
          <<[value |-> SnapshotOf(getState, symbolicStateSignature,
                                  fieldNarrativeContext, resonanceHistory),
             repeated |-> lastSnapshot # <<>> /\ ~mutatedSinceSnapshot]>>
    /\ snapshotsTaken' = snapshotsTaken + 1
    /\ mutatedSinceSnapshot' = FALSE
    /\ fieldStates' = _recordFieldState(fieldStates, getState)
    /\ UNCHANGED <<initialized, fieldState, recorded, harmonicTrace, pending, calls,
                   lastResult, lastActivate, resonanceHistory, symbolicStateSignature,
                   fieldNarrativeContext, oscillatoryBuffer>>
    /\ UNCHANGED agentVars
    /\ UNCHANGED securityVars

\* fieldSnapshot(); repeated tells that the engine was not mutated since the
\* snapshot before this one
fieldSnapshot ==
    /\ snapshotsTaken < MaxSnapshots
    /\ lastSnapshot' =
          <<[value |-> SnapshotOf(getState, symbolicStateSignature,
                                  fieldNarrativeContext, resonanceHistory),
             repeated |-> lastSnapshot # <<>> /\ ~mutatedSinceSnapshot]>>
    /\ snapshotsTaken' = snapshotsTaken + 1
    /\ mutatedSinceSnapshot' = FALSE
    /\ UNCHANGED <<initialized, fieldState, recorded, harmonicTrace, pending, calls,
                   lastResult, lastActivate>>
    /\ UNCHANGED engineVars
    /\ UNCHANGED agentVars
    /\ UNCHANGED securityVars

-----------------------------------------------------------------------------
(* The engine under every operation, on a few inputs *)

Next ==
    \/ initialize
    \/ \E intent \in {NeutralIntent}, agent \in AgentArgs :
          ProcessIntentCall(intent, agent, MaxCalls)
    \/ \E i \in 1..MaxPending, impact \in FiniteImpacts, newState \in FieldStateValues :
          ProcessIntentResume(i, impact, newState)
    \/ \E i \in 1..MaxPending, error \in CollaboratorErrors : ProcessIntentFails(i, error)
    \/ \E d \in {200, 800} : activateOscillatoryBuffer(d)
    \/ \E factor \in HarmonicFactors : updateHarmonicMapping("harmony", factor)
    \/ fieldSnapshot

Spec == Init /\ [][Next]_vars

-----------------------------------------------------------------------------
(* IntentAgent._updateFieldState *)

\* a clamp that lets values above 1 through
ClampUnit_NoUpperBound(x) == JsMax(0, x)

\* Math.max(0, Math.min(1, x))
ClampUnit(x) == JsMax(0, JsMin(Milli, x))

\* IntentAgent._updateFieldState(fieldImpact)
IntentAgent_updateFieldState(fieldImpact) ==
    /\ agentState' =
          [coherence |-> ClampUnit(JsAdd(agentState.coherence, fieldImpact.coherenceDelta)),
           dissonance |-> ClampUnit(JsAdd(agentState.dissonance, fieldImpact.dissonanceDelta))]
    /\ agentOutcome' = <<[status |-> "returned", fieldImpact |-> fieldImpact,
                          before |-> agentState]>>
    /\ UNCHANGED <<initialized, fieldState, recorded, harmonicTrace, pending, calls,
                   lastResult, lastActivate, mutatedSinceSnapshot, agentActive, agentStats>>
    /\ UNCHANGED engineVars
    /\ UNCHANGED snapshotVars
    /\ UNCHANGED securityVars

\* the agent's state under the impacts a well-behaved calculateImpact returns
NextAgent == \E impact \in FiniteImpacts : IntentAgent_updateFieldState(impact)

SpecAgent == Init /\ [][NextAgent]_vars

\* the agent's state under impacts that may be NaN or infinite
NextAgentNonFinite ==
    \E impact \in FiniteImpacts \cup NonFiniteImpacts : IntentAgent_updateFieldState(impact)

SpecAgentNonFinite == Init /\ [][NextAgentNonFinite]_vars

\* the value x clamped into [0, 1]
Within01(x) == IF x < 0 THEN 0 ELSE IF x > Milli THEN Milli ELSE x

\* C1: after every application of a finite impact, coherence and dissonance
\* are the previous value plus the delta, clamped into [0,1]; both are within
\* [0,1] in every reachable state.
C1_ImpactClamped ==
    /\ agentState.coherence \in 0..Milli
    /\ agentState.dissonance \in 0..Milli
    /\ agentOutcome # <<>> =>
          LET o == agentOutcome[1]
          IN  /\ agentState.coherence =
                    Within01(o.before.coherence + o.fieldImpact.coherenceDelta)
              /\ agentState.dissonance =
                    Within01(o.before.dissonance + o.fieldImpact.dissonanceDelta)

\* an application whose sum left [0,1] on both sides: coherence above 1 was
\* cut to 1 and dissonance below 0 was cut to 0
C1_Witness ==
    /\ agentOutcome # <<>>
    /\ agentOutcome[1].before.coherence + agentOutcome[1].fieldImpact.coherenceDelta > Milli
    /\ agentOutcome[1].before.dissonance + agentOutcome[1].fieldImpact.dissonanceDelta < 0
    /\ agentState = [coherence |-> Milli, dissonance |-> 0]

\* C10: an impact with a NaN or infinite delta is rejected with InvalidDelta
\* and leaves coherence and dissonance as they were; no non-finite value
\* becomes part of the state.
C10_NonFiniteRejected ==
    /\ IsFinite(agentState.coherence)
    /\ IsFinite(agentState.dissonance)
    /\ agentOutcome # <<>> =>
          LET o == agentOutcome[1]
          IN  ~ (IsFinite(o.fieldImpact.coherenceDelta) /\ IsFinite(o.fieldImpact.dissonanceDelta))
                 => /\ o.status = "InvalidDelta"
                    /\ agentState = o.before

-----------------------------------------------------------------------------
(* The manual controls: activateOscillatoryBuffer and updateHarmonicMapping  *)
(* called directly on an engine, before or after initialize()               *)

NextBuffer ==
    \/ initialize
    \/ \E d \in DissonanceLevels : activateOscillatoryBuffer(d)
    \/ \E symbol \in HarmonicSymbols, factor \in HarmonicFactors :
          updateHarmonicMapping(symbol, factor)

SpecBuffer == Init /\ [][NextBuffer]_vars

\* C2: a call with d > 0.5 makes the buffer active, a call with d < 0.3 made
\* while active makes it inactive, and a call with 0.3 <= d <= 0.5 leaves
\* the active flag as it was.
C2_Hysteresis ==
    lastActivate # <<>> =>
        LET a == lastActivate[1]
        IN  /\ a.dissonanceLevel > 500 => oscillatoryBuffer.active
            /\ a.dissonanceLevel < 300 => ~oscillatoryBuffer.active
            /\ (a.dissonanceLevel >= 300 /\ a.dissonanceLevel <= 500)
                  => oscillatoryBuffer.active = a.wasActive

\* the buffer, activated earlier, is still active after a call with 0.4
C2_Witness ==
    /\ lastActivate # <<>>
    /\ lastActivate[1].dissonanceLevel = 400
    /\ lastActivate[1].wasActive
    /\ oscillatoryBuffer.active

-----------------------------------------------------------------------------
(* A long session of an initialized engine with the placeholder collaborator: *)
(* the first calls take any intent, the later ones the intent without text    *)
(* and type, so that every other symbol fades                                 *)

LongRunCalls == 150          \* processIntent calls in one long session
FreeCalls == 2               \* calls of a long session that take any intent

LongRunAgent == [hasGetState |-> TRUE, coherence |-> 900, dissonance |-> 100]

LongRunIntents(n) == IF n < FreeCalls THEN Intents ELSE {NeutralIntent}

NextLongRun ==
    \/ initialize
    \/ \E intent \in LongRunIntents(calls) :
          initialized /\ ProcessIntentCall(intent, LongRunAgent, LongRunCalls)
    \/ \E i \in 1..MaxPending : ProcessIntentResume(i, PlaceholderImpact, PlaceholderState)

SpecLongRun == Init /\ [][NextLongRun]_vars

Min(a, b) == IF a < b THEN a ELSE b

\* the markers of the intent whose processing made the last history entry
LastMarkers(hist) == hist[Len(hist)].symbolicMarkers

\* symbolicStateSignature.has(symbol)
Tracks(sig, symbol) == \E j \in DOMAIN sig : sig[j].symbol = symbol

\* C3: the history holds at most 100 entries, and it is the most recent
\* min(n, 100) of the n records made, in the order they were made.
C3_HistoryLastHundred ==
    /\ Len(resonanceHistory) <= 100
    /\ Len(resonanceHistory) = Min(recorded, 100)
    /\ \A i \in DOMAIN resonanceHistory :
          resonanceHistory[i].timestamp = recorded - Len(resonanceHistory) + i

\* after 150 records the history is the records 51..150
C3_Witness ==
    /\ recorded = 150
    /\ Len(resonanceHistory) = 100
    /\ resonanceHistory[1].timestamp = 51
    /\ resonanceHistory[100].timestamp = 150

\* C6: no tracked symbol has a strength below 0.05; an entry whose strength
\* falls below 0.05 is removed.
C6_NoNegligibleSymbol ==
    \A i \in DOMAIN symbolicStateSignature :
        symbolicStateSignature[i].strength >= 50000

\* the base symbol harmony, set to 0.1 by initialize, has faded and is gone
C6_Witness ==
    /\ initialized
    /\ recorded > 0
    /\ ~ \E i \in DOMAIN symbolicStateSignature :
            symbolicStateSignature[i].symbol = "harmony"

\* C18: on each update every tracked symbol absent from the markers has its
\* strength multiplied by 0.98; it is deleted if the result is below 0.05 and
\* otherwise gets trend decreasing; a symbol that starts at 0.1 and is never
\* observed (harmony) is pruned at exactly the 35th update.
C18_DecayAndPrune ==
    /\ [](initialized =>
            (Tracks(symbolicStateSignature, "harmony") <=> recorded <= 34))
    /\ [][ recorded' = recorded + 1 =>
             \A j \in DOMAIN symbolicStateSignature :
                 LET old == symbolicStateSignature[j]
                     decayed == (old.strength * 98) \div 100
                 IN  (\A m \in DOMAIN LastMarkers(resonanceHistory') :
                         LastMarkers(resonanceHistory')[m].symbol # old.symbol)
                     => IF decayed < 50000
                        THEN ~Tracks(symbolicStateSignature', old.symbol)
                        ELSE \E k \in DOMAIN symbolicStateSignature' :
                                symbolicStateSignature'[k] =
                                    [symbol |-> old.symbol, strength |-> decayed,
                                     trend |-> "decreasing"] ]_vars

\* the 35th update has just removed harmony, and the symbols of the first
\* intents, observed at higher strengths, are still fading
C18_Witness ==
    /\ initialized
    /\ recorded = 35
    /\ ~Tracks(symbolicStateSignature, "harmony")
    /\ Tracks(symbolicStateSignature, "assistance")

-----------------------------------------------------------------------------
(* updateHarmonicMapping over more symbols than the map holds: each call     *)
(* takes the first symbol of the pool that the map lacks (with the factor     *)
(* 1.5), or one of the two first symbols of the pool (with any factor)       *)

SymbolPool ==
    <<"s01", "s02", "s03", "s04", "s05", "s06", "s07", "s08", "s09", "s10", "s11",
      "s12", "s13", "s14", "s15", "s16", "s17", "s18", "s19", "s20", "s21", "s22">>

FirstAbsent(map) ==
    IF \E k \in DOMAIN SymbolPool : ~HarmonicHas(map, SymbolPool[k])
    THEN CHOOSE k \in DOMAIN SymbolPool :
            /\ ~HarmonicHas(map, SymbolPool[k])
            /\ \A j \in 1..(k - 1) : HarmonicHas(map, SymbolPool[j])
    ELSE 0

NextHarmonic ==
    \E k \in DOMAIN SymbolPool, factor \in HarmonicFactors :
        /\ \/ k = FirstAbsent(oscillatoryBuffer.harmonicMap) /\ factor = 1500
           \/ k <= 2
        /\ updateHarmonicMapping(SymbolPool[k], factor)

SpecHarmonic == Init /\ [][NextHarmonic]_vars

\* C4: the harmonic map has at most 20 entries, and inserting a symbol that
\* is not in a full map of 20 removes the entry inserted earliest among those
\* present (and no other).
C4_EvictsEarliestInserted ==
    /\ Len(oscillatoryBuffer.harmonicMap) <= 20
    /\ \A c \in DOMAIN harmonicTrace.lastSet :
          LET call == harmonicTrace.lastSet[c]
          IN  (Cardinality(call.before) = 20 /\ call.symbol \notin call.before)
              => SymbolsOf(oscillatoryBuffer.harmonicMap) =
                    (call.before \ {call.earliest}) \cup {call.symbol}

\* the 21st symbol is in the full map and the first-inserted one is gone
C4_Witness ==
    /\ Len(oscillatoryBuffer.harmonicMap) = 20
    /\ HarmonicHas(oscillatoryBuffer.harmonicMap, "s21")
    /\ ~HarmonicHas(oscillatoryBuffer.harmonicMap, "s01")
    /\ oscillatoryBuffer.harmonicMap[1].symbol = "s02"
    /\ harmonicTrace.lastSet # <<>>
    /\ harmonicTrace.lastSet[1].symbol = "s21"
    /\ harmonicTrace.lastSet[1].earliest = "s01"
    /\ Cardinality(harmonicTrace.lastSet[1].before) = 20

-----------------------------------------------------------------------------
(* Claims on the engine under every operation *)

\* C5: after a processIntent call that completes with the buffer previously
\* active and the field dissonance below 0.3, the buffer is inactive.
C5_InactiveBelowThreshold ==
    [][ ( /\ recorded' = recorded + 1
          /\ lastResult'[1].status = "returned"
          /\ oscillatoryBuffer.active
          /\ fieldState'.dissonance < 300 )
        => ~oscillatoryBuffer'.active ]_vars

\* C8: what a snapshot holds does not change when the engine is mutated after
\* the snapshot was returned.
C8_SnapshotPointInTime ==
    [][ (lastSnapshot # <<>> /\ lastSnapshot' = lastSnapshot)
        => SnapshotContents(lastSnapshot'[1].value, oscillatoryBuffer')
              = SnapshotContents(lastSnapshot[1].value, oscillatoryBuffer) ]_vars

\* C9: a snapshot call changes no engine state, and a snapshot taken with no
\* mutation since the snapshot before it has the value of that snapshot.
C9_SnapshotIdempotent ==
    [][ fieldSnapshot
        => /\ UNCHANGED engineVars
           /\ UNCHANGED <<fieldState, recorded, initialized>>
           /\ lastSnapshot'[1].repeated
                 => /\ lastSnapshot'[1].value = lastSnapshot[1].value
                    /\ SnapshotContents(lastSnapshot'[1].value, oscillatoryBuffer')
                          = SnapshotContents(lastSnapshot[1].value, oscillatoryBuffer) ]_vars

\* a second snapshot of an engine that processed an intent, with no mutation
\* between the two
C9_Witness ==
    /\ lastSnapshot # <<>>
    /\ lastSnapshot[1].repeated
    /\ snapshotsTaken = 2
    /\ recorded > 0
    /\ ~mutatedSinceSnapshot

\* C15: when the impact computation fails, processIntent fails with that
\* same error after the one attempt (calculateImpact is not called again), and
\* the history, the symbolic signature and the oscillatory buffer are as they
\* were before the call.
C15_FailurePropagates ==
    [][ \A i \in 1..MaxPending, error \in CollaboratorErrors :
            ProcessIntentFails(i, error)
            => /\ lastResult'[1].status = "rejected"
               /\ lastResult'[1].error = error
               /\ calls' = calls
               /\ Len(pending') = Len(pending) - 1
               /\ resonanceHistory' = resonanceHistory
               /\ symbolicStateSignature' = symbolicStateSignature
               /\ oscillatoryBuffer' = oscillatoryBuffer ]_vars

\* a call failed on an initialized engine that had processed an intent and
\* activated its buffer before
C15_Witness ==
    /\ lastResult # <<>>
    /\ lastResult[1].status = "rejected"
    /\ lastResult[1].error = "ImpactTimeout"
    /\ initialized
    /\ Len(resonanceHistory) = 1
    /\ oscillatoryBuffer.active

-----------------------------------------------------------------------------
(* The decay predictor in a session whose collaborator reports any of the    *)
(* field states after each impact                                           *)

PredictorCalls == 6          \* processIntent calls in one predictor session

NextPredictor ==
    \/ initialize
    \/ ProcessIntentCall(NeutralIntent, LongRunAgent, PredictorCalls)
    \/ \E i \in 1..MaxPending, newState \in FieldStateValues :
          ProcessIntentResume(i, PlaceholderImpact, newState)

SpecPredictor == Init /\ [][NextPredictor]_vars

\* C7: every prediction has projectedCoherence in [0,1], decayRate >= 0 and a
\* timeToThreshold that is >= 0 or +Infinity.
C7_PredictionInDomain ==
    lastResult # <<>> =>
        LET p == lastResult[1].decayPrediction
        IN  /\ p.projectedCoherence >= 0
            /\ p.projectedCoherence <= 4 * Milli
            /\ p.decayRate >= 0
            /\ p.timeToThreshold.inf \/ p.timeToThreshold.num >= 0

\* C11: with fewer than 5 history entries the predictor returns the current
\* coherence as projectedCoherence, decayRate 0 and timeToThreshold +Infinity,
\* and the call returns (no error).
C11_ShortHistoryNoPrediction ==
    (lastResult # <<>> /\ Len(resonanceHistory) < 5) =>
        /\ lastResult[1].status = "returned"
        /\ lastResult[1].decayPrediction.projectedCoherence = 4 * fieldState.coherence
        /\ lastResult[1].decayPrediction.decayRate = 0
        /\ lastResult[1].decayPrediction.timeToThreshold.inf

\* the fourth call returned with a declining history of four entries behind it
C11_Witness ==
    /\ lastResult # <<>>
    /\ Len(resonanceHistory) = 4
    /\ resonanceHistory[1].fieldState.coherence = 900
    /\ resonanceHistory[4].fieldState.coherence = 400
    /\ lastResult[1].decayPrediction.timeToThreshold.inf

-----------------------------------------------------------------------------
(* The decay predictor over a collaborator whose coherence moves in steps of  *)
(* 0.05 between 0.7 and 0.9                                                 *)

TrendStates ==
    { [coherence |-> c, dissonance |-> 200] : c \in {900, 850, 800, 750, 700} }

NextTrend ==
    \/ initialize
    \/ ProcessIntentCall(NeutralIntent, LongRunAgent, PredictorCalls)
    \/ \E i \in 1..MaxPending, newState \in TrendStates :
          ProcessIntentResume(i, PlaceholderImpact, newState)

SpecTrend == Init /\ [][NextTrend]_vars

\* the coherence samples of the last five history entries
LastFiveSamples ==
    [k \in 1..5 |-> resonanceHistory[Len(resonanceHistory) - 5 + k].fieldState.coherence]

\* C12: with at least 5 history entries, velocity = (last - first)/4 over the
\* last 5 samples, projectedCoherence = clamp(current + 5*velocity, 0, 1),
\* decayRate = max(0, -velocity), timeToThreshold = (current - 0.5)/decayRate
\* when decayRate > 0 and +Infinity otherwise; the samples 0.9, 0.85, 0.8,
\* 0.75, 0.7 give decayRate 0.05 and a finite timeToThreshold.
C12_TrendFormulas ==
    (lastResult # <<>> /\ Len(resonanceHistory) >= 5) =>
        LET p == lastResult[1].decayPrediction
            current == fieldState.coherence
            fourVelocities == LastFiveSamples[5] - LastFiveSamples[1]
            projected == 4 * current + 5 * fourVelocities
        IN  /\ p.projectedCoherence =
                  IF projected < 0 THEN 0
                  ELSE IF projected > 4000 THEN 4000 ELSE projected
            /\ p.decayRate = IF fourVelocities < 0 THEN 0 - fourVelocities ELSE 0
            /\ IF p.decayRate > 0
               THEN /\ ~p.timeToThreshold.inf
                    /\ p.timeToThreshold.den > 0
                    /\ p.timeToThreshold.num * p.decayRate =
                          4 * (current - 500) * p.timeToThreshold.den
               ELSE p.timeToThreshold.inf
            /\ LastFiveSamples = <<900, 850, 800, 750, 700>>
                  => (p.decayRate = 200 /\ ~p.timeToThreshold.inf)

\* the samples 0.9, 0.85, 0.8, 0.75, 0.7: decayRate 0.05 (200 in units of
\* 1/4000) and timeToThreshold (0.7 - 0.5)/0.05 = 4
C12_Witness ==
    /\ lastResult # <<>>
    /\ Len(resonanceHistory) >= 5
    /\ LastFiveSamples = <<900, 850, 800, 750, 700>>
    /\ lastResult[1].decayPrediction.decayRate = 200
    /\ lastResult[1].decayPrediction.timeToThreshold = [inf |-> FALSE, num |-> 800, den |-> 200]

-----------------------------------------------------------------------------
(* Interference between agents and field states spread over [0,1]: every    *)
(* processIntent call passes an object whose getState() returns one of the   *)
(* agent states, and the collaborator reports one of the field states        *)

InterferenceAgents ==
    { [hasGetState |-> TRUE, coherence |-> c, dissonance |-> d] :
          c \in {0, 200, 800, 1000}, d \in {0, 200, 800, 1000} }

InterferenceStates ==
    { [coherence |-> c, dissonance |-> d] : c \in {200, 800, 1000}, d \in {0, 800} }

NextInterference ==
    \/ initialize
    \/ \E agent \in InterferenceAgents : ProcessIntentCall(NeutralIntent, agent, MaxCalls)
    \/ \E i \in 1..MaxPending, newState \in InterferenceStates :
          ProcessIntentResume(i, PlaceholderImpact, newState)

SpecInterference == Init /\ [][NextInterference]_vars

\* C13: alignmentScore = 1 - |agentCoherence - fieldCoherence|,
\* interferenceScore = |agentDissonance - fieldDissonance|, harmonicCoupling =
\* alignmentScore*(1 - interferenceScore) if alignmentScore > 0.8 else 0, phase
\* resonant if harmonicCoupling > 0.7, else dissonant if interferenceScore >
\* 0.7, else neutral; the three scores lie in [0,1]; identical agent and field
\* states give alignment 1, interference 0, coupling 1 and phase resonant.
C13_InterferenceScore ==
    (lastResult # <<>> /\ lastResult[1].status = "returned") =>
        LET a == lastResult[1].agent
            r == lastResult[1].interferencePatterns
            dc == a.coherence - fieldState.coherence
            dd == a.dissonance - fieldState.dissonance
            alignment == 1000 - (IF dc < 0 THEN 0 - dc ELSE dc)
            interference == IF dd < 0 THEN 0 - dd ELSE dd
            coupling == IF alignment > 800 THEN alignment * (1000 - interference) ELSE 0
        IN  /\ r.alignmentScore = alignment
            /\ r.interferenceScore = interference
            /\ r.harmonicCoupling = coupling
            /\ r.phase = IF coupling > 700000 THEN "resonant"
                         ELSE IF interference > 700 THEN "dissonant" ELSE "neutral"
            /\ r.alignmentScore \in 0..1000
            /\ r.interferenceScore \in 0..1000
            /\ r.harmonicCoupling \in 0..1000000
            /\ (dc = 0 /\ dd = 0)
                  => /\ r.alignmentScore = 1000
                     /\ r.interferenceScore = 0
                     /\ r.harmonicCoupling = 1000000
                     /\ r.phase = "resonant"

\* an agent in the very state of the field: alignment 1, interference 0,
\* coupling 1, resonant
C13_Witness ==
    /\ lastResult # <<>>
    /\ lastResult[1].status = "returned"
    /\ lastResult[1].agent.coherence = fieldState.coherence
    /\ lastResult[1].agent.dissonance = fieldState.dissonance
    /\ lastResult[1].interferencePatterns =
          [alignmentScore |-> 1000, interferenceScore |-> 0,
           harmonicCoupling |-> 1000000, phase |-> "resonant"]

-----------------------------------------------------------------------------
(* IntentAgent.activate and IntentAgent.process, with the placeholder engine, *)
(* resolver and persona, guardrails that allow or block, and the             *)
(* CoherenceField collaborator                                               *)

AgentInputs == { <<"hello">>, <<"please", "help">>, <<"create">> }

\* NOTHINGEngine.parseIntent of placeholders.ts
parseIntent(input) ==
    [text |-> input,
     type |-> IF "help" \in Range(input) THEN "assistance"
              ELSE IF "explain" \in Range(input) THEN "explanation"
              ELSE IF "create" \in Range(input) THEN "creation"
              ELSE "general",
     subtype |-> ""]

\* the IntentAgent as the field sees it when process passes `this`: an object
\* without a getState method
IntentAgentSelf ==
    [hasGetState |-> FALSE, coherence |-> agentState.coherence,
     dissonance |-> agentState.dissonance]

\* the outcome of a process call
ProcessOutcome(status, allowed, text, fieldImpact, before, after) ==
    [status |-> status, allowed |-> allowed, text |-> text,
     fieldImpact |-> fieldImpact, before |-> before,
     coherence |-> after.coherence, dissonance |-> after.dissonance]

NoImpact == [coherenceDelta |-> 0, dissonanceDelta |-> 0]

\* activate(): field.initialize(), engine.start(), state.active = true
IntentAgent_activate ==
    /\ ~agentActive
    /\ FieldInitialize
    /\ agentActive' = TRUE
    /\ UNCHANGED <<agentState, agentStats, agentOutcome>>
    /\ UNCHANGED securityVars

\* activate() on an active agent: `if (this.state.active) return this`
IntentAgent_activateAgain ==
    /\ agentActive
    /\ agentOutcome' =
          <<ProcessOutcome("already active", FALSE, "", NoImpact, agentState, agentState)>>
    /\ UNCHANGED <<initialized, fieldState, recorded, harmonicTrace, pending, calls,
                   lastResult, lastActivate, mutatedSinceSnapshot, agentState, agentActive,
                   agentStats>>
    /\ UNCHANGED engineVars
    /\ UNCHANGED snapshotVars
    /\ UNCHANGED securityVars

\* a process that counts the interaction before it tests the active flag
IntentAgent_processInactive_CountsFirst ==
    /\ ~agentActive
    /\ agentStats.interactions < MaxCalls
    /\ agentStats' = [interactions |-> agentStats.interactions + 1,
                      lastInteraction |-> agentStats.interactions + 1]
    /\ agentOutcome' =
          <<ProcessOutcome("Agent must be activated before processing input",
                           FALSE, "", NoImpact, agentState, agentState)>>
    /\ UNCHANGED <<initialized, fieldState, recorded, harmonicTrace, pending, calls,
                   lastResult, lastActivate, mutatedSinceSnapshot, agentState, agentActive>>
    /\ UNCHANGED engineVars
    /\ UNCHANGED snapshotVars
    /\ UNCHANGED securityVars

\* process(input) called before activate(): throws at once
IntentAgent_processInactive ==
    /\ ~agentActive
    /\ agentOutcome' =
          <<ProcessOutcome("Agent must be activated before processing input",
                           FALSE, "", NoImpact, agentState, agentState)>>
    /\ UNCHANGED <<initialized, fieldState, recorded, harmonicTrace, pending, calls,
                   lastResult, lastActivate, mutatedSinceSnapshot, agentState, agentActive,
                   agentStats>>
    /\ UNCHANGED engineVars
    /\ UNCHANGED snapshotVars
    /\ UNCHANGED securityVars

\* a process that hands a blocked intent to the field all the same
IntentAgent_processCall_BlockedReachesField(input, allowIntent) ==
    /\ agentActive
    /\ calls < MaxCalls
    /\ Len(pending) < MaxPending
    /\ calls' = calls + 1
    /\ pending' = Append(pending, [intent |-> parseIntent(input),
                                   agent |-> IntentAgentSelf,
                                   caller |-> "agent"])
    /\ IF allowIntent
       THEN UNCHANGED agentOutcome
       ELSE agentOutcome' =
               <<ProcessOutcome("returned", FALSE, "blocked", NoImpact,
                                agentState, agentState)>>
    /\ agentStats' = [interactions |-> agentStats.interactions + 1,
                      lastInteraction |-> agentStats.interactions + 1]
    /\ UNCHANGED <<initialized, fieldState, recorded, harmonicTrace, lastResult,
                   lastActivate, mutatedSinceSnapshot, agentState, agentActive>>
    /\ UNCHANGED engineVars
    /\ UNCHANGED snapshotVars
    /\ UNCHANGED securityVars

\* process(input) up to the await inside field.processIntent, or, when the
\* guardrails block the intent, up to the return of _handleBlockedIntent
IntentAgent_processCall(input, allowIntent) ==
    /\ agentActive
    /\ calls < MaxCalls
    /\ Len(pending) < MaxPending
    /\ calls' = calls + 1
    /\ IF allowIntent
       THEN /\ pending' = Append(pending, [intent |-> parseIntent(input),
                                           agent |-> IntentAgentSelf,
                                           caller |-> "agent"])
            /\ UNCHANGED agentOutcome
       ELSE /\ agentOutcome' =
                  <<ProcessOutcome("returned", FALSE, "blocked", NoImpact,
                                   agentState, agentState)>>
            /\ UNCHANGED pending
    /\ agentStats' = [interactions |-> agentStats.interactions + 1,
                      lastInteraction |-> agentStats.interactions + 1]
    /\ UNCHANGED <<initialized, fieldState, recorded, harmonicTrace, lastResult,
                   lastActivate, mutatedSinceSnapshot, agentState, agentActive>>
    /\ UNCHANGED engineVars
    /\ UNCHANGED snapshotVars
    /\ UNCHANGED securityVars

\* process after field.processIntent settles: on a result, _updateFieldState
\* and the response; on a throw, the catch block rethrows
IntentAgent_processResume(i, impact, newState) ==
    /\ i \in DOMAIN pending
    /\ pending[i].caller = "agent"
    /\ FieldResume(i, impact, newState)
    /\ IF lastResult'[1].status = "returned"
       THEN /\ agentState' =
                  [coherence |-> ClampUnit(JsAdd(agentState.coherence, impact.coherenceDelta)),
                   dissonance |-> ClampUnit(JsAdd(agentState.dissonance, impact.dissonanceDelta))]
            /\ agentOutcome' =
                  <<ProcessOutcome("returned", TRUE, "response", impact,
                                   agentState, agentState')>>
       ELSE /\ agentState' = agentState
            /\ agentOutcome' =
                  <<ProcessOutcome(lastResult'[1].status, TRUE, "", impact,
                                   agentState, agentState)>>
    /\ UNCHANGED <<agentActive, agentStats>>
    /\ UNCHANGED securityVars

\* process when calculateImpact rejects: the catch block rethrows the error
IntentAgent_processFails(i, error) ==
    /\ i \in DOMAIN pending
    /\ pending[i].caller = "agent"
    /\ pending' = RemoveAt(pending, i)
    /\ agentOutcome' =
          <<ProcessOutcome(error, TRUE, "", NoImpact, agentState, agentState)>>
    /\ UNCHANGED <<initialized, fieldState, recorded, harmonicTrace, calls, lastResult,
                   lastActivate, mutatedSinceSnapshot, agentState, agentActive, agentStats>>
    /\ UNCHANGED engineVars
    /\ UNCHANGED snapshotVars
    /\ UNCHANGED securityVars

NextAgentProcess ==
    \/ IntentAgent_activate
    \/ IntentAgent_activateAgain
    \/ IntentAgent_processInactive
    \/ \E input \in AgentInputs, allowIntent \in BOOLEAN :
          IntentAgent_processCall(input, allowIntent)
    \/ \E i \in 1..MaxPending, impact \in FiniteImpacts, newState \in FieldStateValues :
          IntentAgent_processResume(i, impact, newState)
    \/ \E i \in 1..MaxPending, error \in CollaboratorErrors :
          IntentAgent_processFails(i, error)

SpecAgentProcess == Init /\ [][NextAgentProcess]_vars

\* C14: for an activated agent and an input the guardrails allow, process()
\* resolves without throwing, and its result carries the response text and
\* the agent's coherence and dissonance after the field impact was applied.
C14_ProcessResolves ==
    \A k \in DOMAIN agentOutcome :
        LET o == agentOutcome[k]
        IN  (o.allowed /\ o.status \notin CollaboratorErrors)
            => /\ o.status = "returned"
               /\ o.text = "response"
               /\ o.coherence = Within01(o.before.coherence + o.fieldImpact.coherenceDelta)
               /\ o.dissonance = Within01(o.before.dissonance + o.fieldImpact.dissonanceDelta)

-----------------------------------------------------------------------------
(* SecurityCore: construction and validateEquationUsage *)

MaxValidations == 2          \* validateEquationUsage calls in one behaviour

Key1234 == <<49, 50, 51, 52>>                              \* '1234'
KeyValid == <<86, 65, 76, 73, 68, 95, 75, 69, 89>>          \* 'VALID_KEY'
KeyBad == <<66, 65, 68, 95, 75, 69, 89>>                    \* 'BAD_KEY'
KeyQQ == <<81, 81>>                                        \* 'QQ', whose hash is 6 * 432

LicenseKeys == {Key1234, KeyValid, KeyQQ, NullKey}

ProvidedKeys == {Key1234, KeyValid, KeyBad, KeyQQ, NullKey}

EnforcementLevels == {"warn", "strict", "paranoid"}

\* config.quantumEntropySeed: not given, or given
ConfiguredSeeds == {0, 100169, 123456}

\* what Math.floor(Math.random() * 1000000) + 100000 may give
RandomSeeds == {100000, 100169}

\* new SecurityCore(config); random1 and random2 are the two values of
\* _generateEntropySeed() drawn when no seed is configured
SecurityCore_constructor(licenseKey, enforcementLevel, quantumEntropySeed, random1, random2) ==
    /\ ~securityCore.constructed
    /\ securityCore' =
          [constructed |-> TRUE,
           licenseKey |-> licenseKey,
           enforcementLevel |-> enforcementLevel,
           seed |-> IF quantumEntropySeed # 0 THEN quantumEntropySeed ELSE random1,
           matrixValue |-> _generateEntropyMatrix(
                               IF quantumEntropySeed # 0 THEN quantumEntropySeed ELSE random2),
           lastValidation |-> FALSE,
           breaches |-> 0,
           validations |-> 0]
    /\ UNCHANGED <<initialized, fieldState, recorded, harmonicTrace, pending, calls,
                   lastResult, lastActivate, mutatedSinceSnapshot, securityOutcome>>
    /\ UNCHANGED engineVars
    /\ UNCHANGED snapshotVars
    /\ UNCHANGED agentVars

\* validateEquationUsage(providedKey): the breach log, the kill switch and
\* the value returned or the error thrown
validateEquationUsage(providedKey) ==
    /\ securityCore.constructed
    /\ securityCore.validations < MaxValidations
    /\ LET entropyValid == _validateWithQuantumEntropy(securityCore, providedKey)
           resonanceValid == _validateWithResonance(providedKey)
           keyValid == providedKey = securityCore.licenseKey
           isValid == keyValid /\ (entropyValid \/ resonanceValid)
           enforced == securityCore.enforcementLevel \in {"strict", "paranoid"}
       IN  /\ securityCore' =
                [securityCore EXCEPT
                    !.validations = @ + 1,
                    !.lastValidation = @ \/ providedKey # NullKey,
                    !.breaches = IF isValid THEN @
                                 ELSE IF enforced THEN @ + 2 ELSE @ + 1]
           /\ securityOutcome' =
                <<[key |-> providedKey,
                   status |-> IF ~isValid /\ enforced
                              THEN "Unauthorized use detected" ELSE "true"]>>
    /\ UNCHANGED <<initialized, fieldState, recorded, harmonicTrace, pending, calls,
                   lastResult, lastActivate, mutatedSinceSnapshot>>
    /\ UNCHANGED engineVars
    /\ UNCHANGED snapshotVars
    /\ UNCHANGED agentVars

NextSecurity ==
    \/ \E licenseKey \in LicenseKeys, enforcementLevel \in EnforcementLevels,
          quantumEntropySeed \in ConfiguredSeeds, random1 \in RandomSeeds,
          random2 \in RandomSeeds :
          SecurityCore_constructor(licenseKey, enforcementLevel, quantumEntropySeed,
                                   random1, random2)
    \/ \E providedKey \in ProvidedKeys : validateEquationUsage(providedKey)

SpecSecurity == Init /\ [][NextSecurity]_vars

\* C16: in strict mode validateEquationUsage(k) returns true whenever k is
\* the configured license key, and throws an 'Unauthorized use' error
\* whenever k differs from it.
C16_StrictLicenseCheck ==
    (securityOutcome # <<>> /\ securityCore.enforcementLevel = "strict") =>
        IF securityOutcome[1].key = securityCore.licenseKey
        THEN securityOutcome[1].status = "true"
        ELSE securityOutcome[1].status = "Unauthorized use detected"

-----------------------------------------------------------------------------
(* The symbolic signature under intents that observe tracked symbols, new    *)
(* symbols, and one symbol twice (by its text and by its type), on an engine *)
(* that may or may not have been initialized                                 *)

SignatureCalls == 3          \* processIntent calls in one signature session

SignatureIntents ==
    { NeutralIntent,
      [text |-> <<"please", "help">>, type |-> "assistance", subtype |-> ""],
      [text |-> <<"connect">>,        type |-> "general",    subtype |-> "social"],
      [text |-> <<"create">>,         type |-> "Creation",   subtype |-> ""],
      [text |-> <<"analyze">>,        type |-> NoType,       subtype |-> ""] }

NextSignature ==
    \/ initialize
    \/ \E intent \in SignatureIntents :
          ProcessIntentCall(intent, LongRunAgent, SignatureCalls)
    \/ \E i \in 1..MaxPending : ProcessIntentResume(i, PlaceholderImpact, PlaceholderState)

SpecSignature == Init /\ [][NextSignature]_vars

\* C17: every observed marker whose symbol is already tracked sets the
\* strength to 0.8*old + 0.2*observed and the trend to increasing, decreasing
\* or stable as the new strength is greater than, less than or equal to the
\* old one (old being the strength the marker finds, marker after marker).
C17_BlendTracked ==
    [][ recorded' = recorded + 1 =>
          \A j \in DOMAIN symbolicStateSignature :
              LET old == symbolicStateSignature[j]
                  seen == SelectSeq(LastMarkers(resonanceHistory'),
                                    LAMBDA mk : mk.symbol = old.symbol)
                  B[n \in 0..Len(seen)] ==
                      IF n = 0 THEN old.strength
                      ELSE (B[n - 1] * 8 + seen[n].strength * 2) \div 10
              IN  Len(seen) > 0 =>
                    \E k \in DOMAIN symbolicStateSignature' :
                        LET new == symbolicStateSignature'[k]
                            found == B[Len(seen) - 1]
                        IN  /\ new.symbol = old.symbol
                            /\ new.strength = B[Len(seen)]
                            /\ new.trend = IF new.strength > found THEN "increasing"
                                           ELSE IF new.strength < found THEN "decreasing"
                                           ELSE "stable" ]_vars

\* the base symbol connection, at 0.1 after initialize, was observed once with
\* strength 0.65: 0.8*0.1 + 0.2*0.65 = 0.21, increasing
C17_Witness ==
    /\ initialized
    /\ recorded = 1
    /\ \E m \in DOMAIN LastMarkers(resonanceHistory) :
          LastMarkers(resonanceHistory)[m] = [symbol |-> "connection", strength |-> 650000]
    /\ \E k \in DOMAIN symbolicStateSignature :
          symbolicStateSignature[k] =
              [symbol |-> "connection", strength |-> 210000, trend |-> "increasing"]

\* C19: after an update, every symbol that was not tracked before it and
\* occurs in its markers is tracked with trend emerging and with its observed
\* strength.
C19_NewSymbolEmerging ==
    [][ recorded' = recorded + 1 =>
          \A m \in DOMAIN LastMarkers(resonanceHistory') :
              LET marker == LastMarkers(resonanceHistory')[m]
              IN  ~Tracks(symbolicStateSignature, marker.symbol) =>
                    \E k \in DOMAIN symbolicStateSignature' :
                        /\ symbolicStateSignature'[k].symbol = marker.symbol
                        /\ symbolicStateSignature'[k].trend = "emerging"
                        /\ symbolicStateSignature'[k].strength = marker.strength ]_vars

-----------------------------------------------------------------------------
(* A session in which every intent brings a type never seen before and a     *)
(* text that has a word of every pattern: the calls are answered in the      *)
(* order they were made                                                     *)

FreshCalls == 150            \* processIntent calls in one session of fresh types

AllPatternWords == <<"help", "create", "analyze", "learn", "feel", "connect">>

\* the type of the n-th intent
FreshType(n) == "type" \o ToString(n)

FreshIntents(n) ==
    { [text |-> text, type |-> FreshType(n), subtype |-> ""] :
          text \in IF n <= FreeCalls THEN {<<>>, AllPatternWords} ELSE {AllPatternWords} }

NextFreshTypes ==
    \/ initialize
    \/ \E intent \in FreshIntents(calls + 1) :
          ProcessIntentCall(intent, LongRunAgent, FreshCalls)
    \/ ProcessIntentResume(1, PlaceholderImpact, PlaceholderState)

SpecFreshTypes == Init /\ [][NextFreshTypes]_vars

\* C20: the number of tracked symbols never exceeds a fixed size, however
\* many distinct symbols are observed over time: 150, the 138 updates a type
\* symbol lasts, the six symbols of the text patterns and the six base
\* symbols of initialize that no pattern names.
C20_SignatureBounded ==
    Len(symbolicStateSignature) <= 150

\* 150 distinct types were observed, the map is at its size of 150, and the
\* type of the first intent has faded and is gone
C20_Witness ==
    /\ recorded = 150
    /\ Len(symbolicStateSignature) = 150
    /\ ~Tracks(symbolicStateSignature, FreshType(1))
    /\ Tracks(symbolicStateSignature, FreshType(150))

-----------------------------------------------------------------------------
(* Marker extraction, seen through the history entry processIntent makes of *)
(* the intent it was called with                                            *)

\* C21: an intent whose text is empty or missing gets exactly the one marker
\* neutral of strength 0.3, and no intent gets an empty marker list.
C21_EmptyTextNeutral ==
    [][ recorded' = recorded + 1 =>
          /\ LastMarkers(resonanceHistory') # <<>>
          /\ \A i \in DOMAIN pending :
                (pending' = RemoveAt(pending, i) /\ pending[i].intent.text = <<>>)
                => LastMarkers(resonanceHistory') =
                      << [symbol |-> "neutral", strength |-> 300000] >> ]_vars

-----------------------------------------------------------------------------
(* The parameters an activation sets *)

\* C22: every activateOscillatoryBuffer(d) call with d > 0.5 sets frequency
\* to 432/(2*d) times the harmonic-map factor of the dominant symbol when
\* that symbol has an entry (times 1 otherwise), amplitude to 0.5*d, phase to
\* 0 and stabilizationFactor to min(0.8, d*(1 + dominant strength)); the
\* stabilizationFactor is within [0, 0.8] in every reachable state.
C22_ActivationParameters ==
    /\ [](oscillatoryBuffer.stabilizationFactor \in 0..StabilizationCap)
    /\ [][ \A d \in DissonanceLevels :
             (d > 500 /\ activateOscillatoryBuffer(d)) =>
                LET trends == _getSymbolicTrends(symbolicStateSignature)
                    map == oscillatoryBuffer.harmonicMap
                    base == (BaseFrequency * Milli * Milli) \div (d * 2)
                    raw == d * (Micro + trends.strength)
                IN  /\ oscillatoryBuffer'.frequency =
                          IF trends.dominant # "" /\ HarmonicHas(map, trends.dominant)
                          THEN (base * HarmonicGet(map, trends.dominant)) \div Milli
                          ELSE base
                    /\ oscillatoryBuffer'.amplitude = d * 5
                    /\ oscillatoryBuffer'.phase = 0
                    /\ oscillatoryBuffer'.stabilizationFactor =
                          Min(StabilizationCap, raw) ]_vars

\* C23: every evaluation of an active buffer that leaves it active recomputes
\* its parameters from the dissonance of that evaluation, values between 0.3
\* and 0.5 included: afterwards amplitude = 0.5 * that dissonance.
C23_RecomputedWhileActive ==
    (lastActivate # <<>> /\ lastActivate[1].wasActive /\ oscillatoryBuffer.active)
        => oscillatoryBuffer.amplitude = 5 * lastActivate[1].dissonanceLevel

-----------------------------------------------------------------------------
(* The order of the steps of one processIntent call *)

\* C24: the impact delta is applied to the field state before the history
\* entry is appended: the field state stored in the entry of an intent is the
\* state before the call plus that intent's delta, clamped into [0,1].
C24_HistoryHoldsStateAfterDelta ==
    [][ recorded' = recorded + 1 =>
          LET entry == resonanceHistory'[Len(resonanceHistory')]
          IN  entry.fieldState =
                 [coherence |-> Within01(fieldState.coherence + entry.coherenceImpact),
                  dissonance |-> Within01(fieldState.dissonance + entry.dissonanceImpact)] ]_vars

\* C25: the symbolic tracker is updated with the intent's markers before the
\* buffer is evaluated: when processIntent activates the buffer, the
\* stabilizationFactor and the frequency are those of the dominant symbol of
\* the signature that already holds that intent's markers.
C25_BufferSeesUpdatedSignature ==
    [][ ( /\ recorded' = recorded + 1
          /\ NeedsStabilization(
                [coherenceDelta |-> resonanceHistory'[Len(resonanceHistory')].coherenceImpact,
                 dissonanceDelta |-> resonanceHistory'[Len(resonanceHistory')].dissonanceImpact],
                fieldState')
          /\ fieldState'.dissonance > ActivationThreshold )
        => LET trends == _getSymbolicTrends(symbolicStateSignature')
               map == oscillatoryBuffer.harmonicMap
               d == fieldState'.dissonance
               base == (BaseFrequency * Milli * Milli) \div (d * 2)
           IN  /\ oscillatoryBuffer'.stabilizationFactor =
                     Min(StabilizationCap, d * (Micro + trends.strength))
               /\ oscillatoryBuffer'.frequency =
                     IF trends.dominant # "" /\ HarmonicHas(map, trends.dominant)
                     THEN (base * (IF HarmonicGet(map, trends.dominant) = 0 THEN Milli
                                   ELSE HarmonicGet(map, trends.dominant))) \div Milli
                     ELSE base ]_vars

-----------------------------------------------------------------------------
(* updateHarmonicMapping on a symbol the map has, and the lookups of an      *)
(* activation: the symbols of the pool are inserted one after the other, in  *)
(* the order of the pool and each once; the base symbol harmony (dominant    *)
(* once the engine is initialized) is set at any moment; the buffer is       *)
(* activated at any moment                                                   *)

NextHarmonicLookup ==
    \/ initialize
    \/ \E k \in DOMAIN SymbolPool :
          /\ k = FirstAbsent(oscillatoryBuffer.harmonicMap)
          /\ \A j \in (k + 1)..Len(SymbolPool) :
                ~HarmonicHas(oscillatoryBuffer.harmonicMap, SymbolPool[j])
          /\ updateHarmonicMapping(SymbolPool[k], 1500)
    \/ \E factor \in HarmonicFactors : updateHarmonicMapping("harmony", factor)
    \/ \E d \in {400, 800} : activateOscillatoryBuffer(d)

SpecHarmonicLookup == Init /\ [][NextHarmonicLookup]_vars

\* C26: updateHarmonicMapping on a symbol that is in the map replaces its
\* factor, evicts nothing and leaves every symbol at its position, and an
\* activation of the buffer leaves the map as it is.
C26_OverwriteKeepsOrder ==
    /\ [][ \A symbol \in {"harmony"} \cup Range(SymbolPool), factor \in HarmonicFactors :
             ( /\ HarmonicHas(oscillatoryBuffer.harmonicMap, symbol)
               /\ updateHarmonicMapping(symbol, factor) )
             => oscillatoryBuffer'.harmonicMap =
                   [i \in DOMAIN oscillatoryBuffer.harmonicMap |->
                       IF oscillatoryBuffer.harmonicMap[i].symbol = symbol
                       THEN [symbol |-> symbol, factor |-> factor]
                       ELSE oscillatoryBuffer.harmonicMap[i]] ]_vars
    /\ [][ \A d \in DissonanceLevels :
             activateOscillatoryBuffer(d)
             => oscillatoryBuffer'.harmonicMap = oscillatoryBuffer.harmonicMap ]_vars

\* the full map of 20 has harmony, inserted first, still at its first place
\* after its factor was overwritten with 0, and an activation has looked
\* harmony up
C26_Witness ==
    /\ initialized
    /\ Len(oscillatoryBuffer.harmonicMap) = 20
    /\ oscillatoryBuffer.harmonicMap[1] = [symbol |-> "harmony", factor |-> 0]
    /\ harmonicTrace.lastSet # <<>>
    /\ harmonicTrace.lastSet[1].symbol = "harmony"
    /\ "harmony" \in harmonicTrace.lastSet[1].before
    /\ Cardinality(harmonicTrace.lastSet[1].before) = 20
    /\ lastActivate # <<>>
    /\ lastActivate[1].returned
    /\ oscillatoryBuffer.active

-----------------------------------------------------------------------------
(* Overlapping processIntent calls on one initialized engine: the calls      *)
(* bring the intents of OverlapIntents in turn, a call may be made while      *)
(* another is suspended, and the suspended calls are resumed in any order     *)

OverlapCalls == 3            \* processIntent calls in one session of overlapping calls

OverlapIntents ==
    << [text |-> <<"please", "help">>,   type |-> "assistance", subtype |-> ""],
       [text |-> <<"connect">>,          type |-> "general",    subtype |-> "social"],
       NeutralIntent >>

NextOverlap ==
    \/ initialize
    \/ /\ initialized
       /\ calls < OverlapCalls
       /\ ProcessIntentCall(OverlapIntents[(calls % Len(OverlapIntents)) + 1],
                            LongRunAgent, OverlapCalls)
    \/ \E i \in 1..MaxPending, impact \in FiniteImpacts, newState \in FieldStateValues :
          ProcessIntentResume(i, impact, newState)

SpecOverlap == Init /\ [][NextOverlap]_vars

\* the impact a history entry was made of
ImpactOf(entry) ==
    [coherenceDelta |-> entry.coherenceImpact, dissonanceDelta |-> entry.dissonanceImpact]

\* the signature of an initialized engine that ran the calls of the first k
\* entries of hist one after the other
ReplaySignature(hist, k) ==
    LET F[i \in 0..k] ==
            IF i = 0 THEN _initializeSymbolicSignature(<<>>)
            ELSE UpdateSignatureMap(F[i - 1], hist[i].symbolicMarkers)
    IN  F[k]

\* the buffer of an engine that ran the calls of the entries of hist one
\* after the other
ReplayBuffer(hist) ==
    LET F[i \in 0..Len(hist)] ==
            IF i = 0 THEN NewOscillatoryBuffer
            ELSE BufferAfterCheck(F[i - 1], ReplaySignature(hist, i - 1),
                                  ImpactOf(hist[i]), hist[i].fieldState)
    IN  F[Len(hist)]

\* the narrative context of an engine that ran the calls of the entries of
\* hist one after the other
ReplayNarrative(hist) ==
    LET pushed(ctx, e) ==
            Append(ctx, [intentType |-> e.intentSignature[1],
                         coherenceDelta |-> e.coherenceImpact,
                         dissonanceDelta |-> e.dissonanceImpact,
                         symbolicMarkers |-> e.symbolicMarkers])
        F[i \in 0..Len(hist)] ==
            IF i = 0 THEN <<>>
            ELSE IF Abs(hist[i].coherenceImpact) > 200 \/ Abs(hist[i].dissonanceImpact) > 200
                 THEN IF Len(pushed(F[i - 1], hist[i])) > NarrativeLimit
                      THEN Tail(pushed(F[i - 1], hist[i]))
                      ELSE pushed(F[i - 1], hist[i])
                 ELSE F[i - 1]
    IN  F[Len(hist)]

\* C27: a processIntent call mutates nothing before its impact resolves and
\* makes all its mutations in one step when it does, so the state of the
\* engine is at every moment the state of an engine that ran the resolved
\* calls one after the other, in the order their impacts resolved (the order
\* of the history entries), whatever calls were suspended meanwhile.
C27_OverlapIsSequential ==
    initialized =>
        /\ Len(resonanceHistory) = recorded
        /\ \A i \in DOMAIN resonanceHistory : resonanceHistory[i].timestamp = i
        /\ symbolicStateSignature = ReplaySignature(resonanceHistory, recorded)
        /\ oscillatoryBuffer = ReplayBuffer(resonanceHistory)
        /\ fieldNarrativeContext = ReplayNarrative(resonanceHistory)
        /\ fieldStates = <<PlaceholderState>> \o
                         [i \in DOMAIN resonanceHistory |-> resonanceHistory[i].fieldState]

\* the second call resolved while the first was suspended, then the first:
\* both have made their history entries, in the order they resolved, and the
\* third call is still suspended
C27_Witness ==
    /\ calls = 3
    /\ recorded = 2
    /\ Len(pending) = 1
    /\ resonanceHistory[1].intentSignature = _extractIntentSignature(OverlapIntents[2])
    /\ resonanceHistory[2].intentSignature = _extractIntentSignature(OverlapIntents[1])
    /\ oscillatoryBuffer.active
    /\ Tracks(symbolicStateSignature, "general")
    /\ Tracks(symbolicStateSignature, "assistance")

-----------------------------------------------------------------------------
(* Claims on IntentAgent.process *)

\* C28: when the guardrails do not allow the intent, process() returns the
\* blocked response and does not invoke the field's processIntent: no call
\* is suspended in the field, and the engine's history, signature and buffer
\* and the agent's coherence and dissonance are as they were.
C28_BlockedLeavesEngine ==
    [][ \A input \in AgentInputs :
          IntentAgent_processCall(input, FALSE) =>
             /\ agentOutcome' =
                   <<ProcessOutcome("returned", FALSE, "blocked", NoImpact,
                                    agentState, agentState)>>
             /\ pending' = pending
             /\ recorded' = recorded
             /\ resonanceHistory' = resonanceHistory
             /\ symbolicStateSignature' = symbolicStateSignature
             /\ oscillatoryBuffer' = oscillatoryBuffer
             /\ fieldStates' = fieldStates
             /\ agentState' = agentState ]_vars

\* an intent was blocked on an engine that had processed one intent: the
\* history still has its one entry and no call is suspended
C28_Witness ==
    /\ agentActive
    /\ agentOutcome # <<>>
    /\ ~agentOutcome[1].allowed
    /\ agentOutcome[1].text = "blocked"
    /\ Len(resonanceHistory) = 1
    /\ recorded = 1
    /\ pending = <<>>

\* C29: process() on an agent that was not activated fails with 'Agent must
\* be activated before processing input' and changes no agent or field state
\* (the interaction counter and lastInteraction included); on an activated
\* agent the call is accepted and counted; a second activate() does not
\* initialize the field again.
C29_InactiveRejected ==
    /\ [][ IntentAgent_processInactive =>
             /\ agentOutcome'[1].status = "Agent must be activated before processing input"
             /\ agentStats' = agentStats
             /\ agentState' = agentState
             /\ agentActive' = agentActive
             /\ initialized' = initialized
             /\ pending' = pending
             /\ recorded' = recorded
             /\ UNCHANGED engineVars ]_vars
    /\ [][ (agentActive /\ agentStats' # agentStats) =>
             /\ agentStats'.interactions = agentStats.interactions + 1
             /\ agentStats'.lastInteraction = agentStats'.interactions
             /\ \/ Len(pending') = Len(pending) + 1
                \/ agentOutcome'[1].text = "blocked" ]_vars
    /\ [][ IntentAgent_activateAgain =>
             /\ initialized' = initialized
             /\ UNCHANGED engineVars ]_vars
    /\ [](agentStats.interactions > 0 => agentActive)

\* a process call has failed on the agent before its activation: nothing was
\* counted and the field is not initialized
C29_Witness ==
    /\ ~agentActive
    /\ agentOutcome # <<>>
    /\ agentOutcome[1].status = "Agent must be activated before processing input"
    /\ agentStats = [interactions |-> 0, lastInteraction |-> 0]
    /\ ~initialized
    /\ symbolicStateSignature = <<>>

-----------------------------------------------------------------------------
(* The two phase conditions of _calculateInterference *)

\* C30: for agent and field states within [0,1] the resonant condition
\* (harmonicCoupling > 0.7) and the dissonant condition (interferenceScore >
\* 0.7) never hold together, so the phase is the same when the dissonant
\* condition is tested first.
C30_PhaseConditionsExclusive ==
    (lastResult # <<>> /\ lastResult[1].status = "returned") =>
        LET r == lastResult[1].interferencePatterns
        IN  /\ ~ (r.harmonicCoupling > 700000 /\ r.interferenceScore > 700)
            /\ r.phase = IF r.interferenceScore > 700 THEN "dissonant"
                         ELSE IF r.harmonicCoupling > 700000 THEN "resonant"
                         ELSE "neutral"

\* an agent as coherent as the field (alignment 1, the coupling is not gated
\* to 0) whose dissonance is 0.8 away from the field's: the coupling is 0.2
\* and the phase dissonant
C30_Witness ==
    /\ lastResult # <<>>
    /\ lastResult[1].status = "returned"
    /\ lastResult[1].agent.coherence \in 0..Milli
    /\ lastResult[1].agent.dissonance \in 0..Milli
    /\ lastResult[1].interferencePatterns =
          [alignmentScore |-> 1000, interferenceScore |-> 800,
           harmonicCoupling |-> 200000, phase |-> "dissonant"]

====
